---- MODULE Spec2Model ----
(***************************************************************************)
(* The WebSocket hub of internal/chat/websocket.go: the registry of live  *)
(* connections (by user and by chat room), the hub's command loop (Run),  *)
(* the router (broadcastMessage), the callers that publish events and the *)
(* outbound duty (writePump) that drains each connection's Send channel,  *)
(* the two pumps' ends and the Redis listener (RedisSubscriber).           *)
(*                                                                         *)
(* The hub's three channels are modelled by what Go does with them:        *)
(*   register, unregister  unbuffered: a send completes only in the step  *)
(*                         in which Run receives it;                       *)
(*   broadcast             buffered: a FIFO of at most BroadcastCap;      *)
(*   client.Send           buffered: a FIFO of at most SendCap, closed by *)
(*                         unregisterClient.                               *)
(* A send that can never be received leaves its goroutine parked for ever; *)
(* closing a closed channel, or sending on one, panics and ends the       *)
(* process.                                                                *)
(***************************************************************************)
EXTENDS Naturals, Sequences, FiniteSets

\* ------------------------------------------------------------------ bounds

\* Capacity of a connection's Send channel (256 in the source, scaled down).
SendCap == 1
\* Capacity of the hub's broadcast channel (256 in the source, scaled down).
BroadcastCap == 2
\* How many room events callers publish in one run.
MaxEvents == 2
\* How many publishing goroutines can be parked on a full broadcast channel.
MaxParked == 1
\* The read deadline's window in ticks (60 s in the source, scaled down).
IdleWindow == 2
\* How many calls of ChatService return in one run.
MaxCalls == 2

\* ------------------------------------------------------------- the universe

Users == {"A", "B"}
Conns == {"a1", "a2", "b1"}
UserOf == [c \in Conns |-> IF c = "b1" THEN "B" ELSE "A"]
Rooms == {"G1", "G2"}
\* The rooms the running server's callers join and publish to (Spec); the
\* command-driven hub (SpecCommands) uses every room.
LiveRooms == {"G1"}

\* uuid.Nil: the chat id of an event that is not room-scoped.
NilChat == "nil"
None == [type |-> "none"]

WSMessageReceived == "message_received"
WSTypingStart == "typing_start"
WSTypingStop == "typing_stop"
WSUserOnline == "user_online"
WSUserOffline == "user_offline"
WSMessageRead == "message_read"
\* The type of the events of ChatService.broadcastReaction.
WSMessageReaction == "message_reaction"

\* A WSMessage.  seq orders the room events by their entry into the broadcast
\* channel (1, 2, ...); presence events are never handed to a connection and
\* carry 0.
WSMessage(t, chat, user, seq) == [type |-> t, chat |-> chat, user |-> user, seq |-> seq]

VARIABLES
    clients,      \* h.clients: user -> its registered connections
    chatRooms,    \* h.chatRooms: room -> user -> connections
    joined,       \* client.ChatRooms, per connection
    send,         \* client.Send: the buffered events, per connection
    closed,       \* whether client.Send has been closed
    wire,         \* what writePump has written to the socket, per connection
    broadcast,    \* h.broadcast: the buffered events
    hubState,     \* where the goroutine of Run is
    hubPending,   \* what that goroutine is parked on, if it is
    parked,       \* events whose publisher is parked on h.broadcast
    nextSeq,      \* the seq of the next room event to enter h.broadcast
    rpump,        \* where the connection's HandleWebSocket, then its readPump, is
    wpump,        \* where the goroutine of client.writePump is, per connection
    bridge,       \* where the goroutine of RedisSubscriber is, and what it holds
    published,    \* the payloads this process has published to Redis
    deadline,     \* ticks left until the read deadline of the socket, per connection
    quiet,        \* ticks since the last frame of any kind arrived, per connection
    logged,       \* the server's log holds an "Unknown WebSocket message type" line
    service       \* ChatService: the rows written, the goroutines started, the calls returned

vars == <<clients, chatRooms, joined, send, closed, wire, broadcast,
          hubState, hubPending, parked, nextSeq, rpump, wpump, bridge, published,
          deadline, quiet, logged, service>>

pumps == <<rpump, wpump>>
redis == <<bridge, published>>
clock == <<deadline, quiet, logged>>

registry == <<clients, chatRooms, joined>>

\* ------------------------------------------------------------ Go maps

\* make(map[...]...)
EmptyMap == [x \in {} |-> {}]
MapPut(f, k, v) == [x \in DOMAIN f \cup {k} |-> IF x = k THEN v ELSE f[x]]
MapDel(f, k) == [x \in DOMAIN f \ {k} |-> f[x]]
MapGet(f, k) == IF k \in DOMAIN f THEN f[k] ELSE {}

\* Every connection room r holds.
RoomMembers(rooms, r) ==
    IF r \in DOMAIN rooms THEN UNION {rooms[r][u] : u \in DOMAIN rooms[r]} ELSE {}

Registered(c) == c \in MapGet(clients, UserOf[c])

\* A RemoveFromRoom that forgets delete(userClients, client.ID).
RemoveFromRoomKeeps(rooms, r, c) == rooms

\* delete(userClients, client.ID), then delete(chatUsers, client.UserID) when
\* that leaves the user with no connection in the room.  The room's own entry
\* stays.
RemoveFromRoom(rooms, r, c) ==
    LET u == UserOf[c] IN
    IF r \in DOMAIN rooms /\ u \in DOMAIN rooms[r]
    THEN LET rest == rooms[r][u] \ {c} IN
         MapPut(rooms, r, IF rest = {} THEN MapDel(rooms[r], u)
                                       ELSE MapPut(rooms[r], u, rest))
    ELSE rooms

\* An AddToRoom that makes the user's map anew on every call.
AddToRoomMakesAnew(rooms, r, c) ==
    LET room == IF r \in DOMAIN rooms THEN rooms[r] ELSE EmptyMap IN
    MapPut(rooms, r, MapPut(room, UserOf[c], {c}))

\* JoinChatRoom's writes to h.chatRooms: the room's map and the user's map
\* are made when they are nil, then the client is put under its id.
AddToRoom(rooms, r, c) ==
    LET room == IF r \in DOMAIN rooms THEN rooms[r] ELSE EmptyMap IN
    MapPut(rooms, r, MapPut(room, UserOf[c], MapGet(room, UserOf[c]) \cup {c}))

RECURSIVE RemoveFromRooms(_, _, _)
RemoveFromRooms(rooms, rs, c) ==
    IF rs = {} THEN rooms
    ELSE LET r == CHOOSE x \in rs : TRUE IN
         RemoveFromRooms(RemoveFromRoom(rooms, r, c), rs \ {r}, c)

\* ------------------------------------------------------------ queries

IsUserOnline(u) == u \in DOMAIN clients /\ Cardinality(clients[u]) > 0

RECURSIVE SumLen(_, _)
SumLen(f, us) ==
    IF us = {} THEN 0
    ELSE LET u == CHOOSE x \in us : TRUE IN Cardinality(f[u]) + SumLen(f, us \ {u})

\* A count of the users that have an entry, not of their connections.
GetConnectionCountUsers == Cardinality(DOMAIN clients)

GetConnectionCount == SumLen(clients, DOMAIN clients)

\* ------------------------------------------------------------ Init

Init ==
    /\ clients = EmptyMap
    /\ chatRooms = EmptyMap
    /\ joined = [c \in Conns |-> {}]
    /\ send = [c \in Conns |-> <<>>]
    /\ closed = [c \in Conns |-> FALSE]
    /\ wire = [c \in Conns |-> <<>>]
    /\ broadcast = <<>>
    /\ hubState = "idle"
    /\ hubPending = None
    /\ parked = {}
    /\ nextSeq = 1
    /\ rpump = [c \in Conns |-> "none"]
    /\ wpump = [c \in Conns |-> "none"]
    /\ bridge = [state |-> "listening", holds |-> None]
    /\ published = {}
    /\ deadline = [c \in Conns |-> IdleWindow]
    /\ quiet = [c \in Conns |-> 0]
    /\ logged = FALSE
    /\ service = [writes |-> {}, goroutines |-> {}, calls |-> 0]

\* ------------------------------------------------------------ the hub

\* A hub whose select serves its commands only while the listener listens.
HubIdleWhileListening == hubState = "idle" /\ bridge.state = "listening"

\* The hub's goroutine is between two commands, in its select (Run).
HubIdle == hubState = "idle"

\* h.broadcast <- wsMessage, executed by the goroutine of Run itself
\* (broadcastUserStatus, called from registerClient and unregisterClient).
\* The channel has room: the event is buffered.  It is full: Run, the only
\* receiver of h.broadcast, is the goroutine that is sending, so it is parked
\* for ever, with h.mutex held.
HubSendCompletes == Len(broadcast) < BroadcastCap

broadcastUserStatus(userID, isOnline) ==
    LET m == WSMessage(IF isOnline THEN WSUserOnline ELSE WSUserOffline,
                       NilChat, userID, 0) IN
    IF HubSendCompletes
    THEN /\ broadcast' = Append(broadcast, m)
         /\ hubState' = "idle"
         /\ hubPending' = None
    ELSE /\ broadcast' = broadcast
         /\ hubState' = "blockedOnBroadcast"
         /\ hubPending' = m

\* h.mutex between two steps.  registerClient and unregisterClient take
\* Lock and broadcastMessage takes RLock on entry and release it by defer, on
\* return: a handler that ran to its end (or panicked) has released it, a
\* handler parked on a channel send inside it has not.
mutex ==
    IF hubState = "blockedOnBroadcast" THEN "Lock"
    ELSE IF hubState = "blockedOnUnregister" THEN "RLock"
    ELSE "free"

\* case client := <-h.register: h.registerClient(client)
registerClient(c) ==
    /\ HubIdle
    /\ clients' = MapPut(clients, UserOf[c], MapGet(clients, UserOf[c]) \cup {c})
    /\ broadcastUserStatus(UserOf[c], TRUE)
    /\ UNCHANGED <<chatRooms, joined, send, closed, wire, parked, nextSeq>>

\* An unregisterClient that deletes the user's entry with all its devices.
ClientsAfterUnregisterDropsUser(c) == MapDel(clients, UserOf[c])

\* What unregisterClient leaves in h.clients.
ClientsAfterUnregister(c) ==
    LET u == UserOf[c] IN
    IF u \in DOMAIN clients
    THEN LET rest == clients[u] \ {c} IN
         IF rest = {} THEN MapDel(clients, u) ELSE MapPut(clients, u, rest)
    ELSE clients

\* An unregisterClient that forgets `if len(clients) == 0`.
GoesOfflineAlways(c) == UserOf[c] \in DOMAIN clients

\* Whether unregisterClient(c) reports the user offline: the user has an
\* entry in h.clients and deleting c empties it.
GoesOffline(c) ==
    /\ UserOf[c] \in DOMAIN clients
    /\ clients[UserOf[c]] \ {c} = {}

\* case client := <-h.unregister: h.unregisterClient(client)
\* In the order of the code: the clients map, the offline status (which parks
\* the hub when h.broadcast is full, before anything below runs), the rooms
\* of client.ChatRooms, close(client.Send) (a panic when it is closed
\* already), client.Conn.Close().
unregisterClient(c) ==
    /\ HubIdle
    /\ clients' = ClientsAfterUnregister(c)
    /\ UNCHANGED <<joined, send, wire, parked, nextSeq>>
    /\ IF GoesOffline(c) /\ ~HubSendCompletes
       THEN /\ broadcastUserStatus(UserOf[c], FALSE)
            /\ UNCHANGED <<chatRooms, closed>>
       ELSE /\ chatRooms' = RemoveFromRooms(chatRooms, joined[c], c)
            /\ IF GoesOffline(c)
               THEN broadcast' = Append(broadcast,
                                        WSMessage(WSUserOffline, NilChat, UserOf[c], 0))
               ELSE broadcast' = broadcast
            /\ hubPending' = None
            /\ IF closed[c]
               THEN /\ hubState' = "panicked"
                    /\ closed' = closed
               ELSE /\ hubState' = "idle"
                    /\ closed' = [closed EXCEPT ![c] = TRUE]

\* ------------------------------------------------------------ the router

\* A receive that takes the newest buffered event, not the oldest.
ReceivedNewest(q) == q[Len(q)]

\* message := <-h.broadcast: a Go channel hands out what it buffers first in,
\* first out.
Received(q) == Head(q)

\* A router that forgets `userID != message.UserID`.
TargetUsersWithSender(m) ==
    IF m.type \in {"message_received", "typing_start", "typing_stop"}
       /\ m.chat \in DOMAIN chatRooms
    THEN DOMAIN chatRooms[m.chat]
    ELSE {}

\* A router whose switch has no case for the typing events.
RoomScopedNoTyping(m) == m.type = "message_received"

RoomScoped(m) == m.type \in {WSMessageReceived, WSTypingStart, WSTypingStop}

\* The users of the room whose connections broadcastMessage sends m to:
\* every user of h.chatRooms[m.ChatID] but m.UserID.
TargetUsers(m) ==
    IF RoomScoped(m) /\ m.chat \in DOMAIN chatRooms
    THEN DOMAIN chatRooms[m.chat] \ {m.user}
    ELSE {}

\* A router that looks for its target users' connections in every room.
TargetsInAnyRoom(m) ==
    IF RoomScoped(m)
    THEN {c \in Conns : /\ UserOf[c] # m.user
                        /\ \E r \in DOMAIN chatRooms :
                              /\ UserOf[c] \in DOMAIN chatRooms[r]
                              /\ c \in chatRooms[r][UserOf[c]]}
    ELSE {}

\* The connections broadcastMessage sends m to.
Targets(m) == UNION {chatRooms[m.chat][u] : u \in TargetUsers(m)}

\* select { case client.Send <- message: default: h.unregister <- client }
\* does not buffer the event when the channel is full (the default branch)
\* and panics when it is closed.
Full(c) == Len(send[c]) >= SendCap

\* A send that a closed channel takes as an open one does.
StopsWhenFull(c) == Full(c)

Stops(c) == closed[c] \/ Full(c)

\* broadcastToUserContacts: a stub (TODO), it sends nothing.
broadcastToUserContacts(userID, m) == {}

\* The buffers after the connections of `served` were sent m.
Deliver(served, m) == [c \in Conns |-> IF c \in served THEN Append(send[c], m) ELSE send[c]]

\* case message := <-h.broadcast: h.broadcastMessage(message)
\* The two range loops visit the users of the room, and each user's
\* connections, in an order Go does not fix.  When no target stops the loop,
\* every target is served.  Otherwise the loop ends at the first target v it
\* reaches whose Send is closed (a panic) or full (h.unregister <- client: Run
\* is the only receiver of h.unregister and is the sender, so it is parked for
\* ever, holding h.mutex.RLock): served are the users visited before v's, none
\* of whose connections stops the loop, and the connections of v's user
\* visited before v.
broadcastMessage(m) ==
    /\ HubIdle
    /\ broadcast # <<>>
    /\ m = Received(broadcast)
    /\ broadcast' = Tail(broadcast)
    /\ UNCHANGED <<clients, chatRooms, joined, closed, wire, parked, nextSeq>>
    /\ LET T == IF m.type \in {WSUserOnline, WSUserOffline}
                THEN broadcastToUserContacts(m.user, m)
                ELSE Targets(m) IN
       IF \A c \in T : ~Stops(c)
       THEN /\ send' = Deliver(T, m)
            /\ hubState' = "idle"
            /\ hubPending' = None
       ELSE \E v \in {c \in T : Stops(c)} :
            \E before \in SUBSET {u \in TargetUsers(m) \ {UserOf[v]} :
                                    \A c \in chatRooms[m.chat][u] : ~Stops(c)} :
            \E sameUser \in SUBSET {c \in chatRooms[m.chat][UserOf[v]] : ~Stops(c)} :
               /\ send' = Deliver(sameUser \cup UNION {chatRooms[m.chat][u] : u \in before}, m)
               /\ hubState' = IF closed[v] THEN "panicked" ELSE "blockedOnUnregister"
               /\ hubPending' = [type |-> "unregister", conn |-> v, message |-> m]

\* ------------------------------------------------------------ rooms

\* h.mutex.Lock(): granted while the hub holds neither lock, which is while
\* it is between two commands; a hub parked inside a handler keeps its lock.
JoinChatRoom(c, r) ==
    /\ HubIdle
    /\ chatRooms' = AddToRoom(chatRooms, r, c)
    /\ joined' = [joined EXCEPT ![c] = @ \cup {r}]
    /\ UNCHANGED <<clients, send, closed, wire, broadcast, hubState, hubPending,
                   parked, nextSeq>>

LeaveChatRoom(c, r) ==
    /\ HubIdle
    /\ chatRooms' = RemoveFromRoom(chatRooms, r, c)
    /\ joined' = [joined EXCEPT ![c] = @ \ {r}]
    /\ UNCHANGED <<clients, send, closed, wire, broadcast, hubState, hubPending,
                   parked, nextSeq>>

\* ------------------------------------------------------------ publishers

\* h.broadcast <- wsMessage in a goroutine other than the hub's: buffered at
\* once when the channel has room, otherwise the caller is parked until Run
\* has received from the channel.
Publish(t, chat, user) ==
    /\ hubState # "panicked"
    /\ nextSeq + Cardinality(parked) <= MaxEvents
    /\ IF Len(broadcast) < BroadcastCap
       THEN /\ broadcast' = Append(broadcast, WSMessage(t, chat, user, nextSeq))
            /\ nextSeq' = nextSeq + 1
            /\ parked' = parked
       ELSE /\ Cardinality(parked) < MaxParked
            /\ WSMessage(t, chat, user, 0) \notin parked
            /\ parked' = parked \cup {WSMessage(t, chat, user, 0)}
            /\ UNCHANGED <<broadcast, nextSeq>>
    /\ UNCHANGED <<clients, chatRooms, joined, send, closed, wire, hubState, hubPending>>

SendMessageToChat(chatID, senderID) == Publish(WSMessageReceived, chatID, senderID)

SendTypingIndicator(chatID, userID, isTyping) ==
    Publish(IF isTyping THEN WSTypingStart ELSE WSTypingStop, chatID, userID)

\* A parked publisher's send completes and the call returns.
PublishReturns(m) ==
    /\ hubState # "panicked"
    /\ m \in parked
    /\ Len(broadcast) < BroadcastCap
    /\ broadcast' = Append(broadcast, [m EXCEPT !.seq = nextSeq])
    /\ nextSeq' = nextSeq + 1
    /\ parked' = parked \ {m}
    /\ UNCHANGED <<clients, chatRooms, joined, send, closed, wire, hubState, hubPending>>

\* ------------------------------------------------------------ writePump

\* case message, ok := <-c.Send: c.Conn.WriteJSON(message).  A closed channel
\* still hands out what it buffered.
writePump(c) ==
    /\ hubState # "panicked"
    /\ send[c] # <<>>
    /\ send' = [send EXCEPT ![c] = Tail(@)]
    /\ wire' = [wire EXCEPT ![c] = Append(@, Head(send[c]))]
    /\ UNCHANGED <<clients, chatRooms, joined, closed, broadcast, hubState,
                   hubPending, parked, nextSeq>>

\* ------------------------------------------------------------ the program

\* HandleWebSocket: a new client is handed to the hub once (h.register <-
\* client returns when Run has received it, whatever becomes of Run inside
\* registerClient), and then its two pumps are started.
HandleWebSocket(c) ==
    /\ ~Registered(c)
    /\ ~closed[c]
    /\ rpump[c] = "none"
    /\ registerClient(c)
    /\ rpump' = [rpump EXCEPT ![c] = "reading"]
    /\ wpump' = [wpump EXCEPT ![c] = "writing"]
    /\ deadline' = [deadline EXCEPT ![c] = IdleWindow]
    /\ quiet' = [quiet EXCEPT ![c] = 0]
    /\ UNCHANGED <<logged, redis, service>>

\* readPump ends (ReadJSON returns an error) and its deferred
\* h.unregister <- c is received by Run at once: sent once per connection.
readPumpExit(c) ==
    /\ Registered(c)
    /\ ~closed[c]
    /\ rpump[c] = "reading"
    /\ unregisterClient(c)
    /\ rpump' = [rpump EXCEPT ![c] = "returned"]
    /\ UNCHANGED <<wpump, redis, clock, service>>

HubRoutes == \E m \in {broadcast[i] : i \in DOMAIN broadcast} : broadcastMessage(m)

\* The server as it runs: connections come and go through HandleWebSocket
\* and readPump, and rooms are joined and left on behalf of connections that
\* are registered (Connecting -> Registered -> (JoinRoom/LeaveRoom)* ->
\* Unregistered).
Next ==
    \/ \E c \in Conns : HandleWebSocket(c)
    \/ \E c \in Conns : readPumpExit(c)
    \/ HubRoutes /\ UNCHANGED <<pumps, redis, clock, service>>
    \/ \E c \in Conns, r \in LiveRooms :
          Registered(c) /\ JoinChatRoom(c, r) /\ UNCHANGED <<pumps, redis, clock, service>>
    \/ \E c \in Conns, r \in LiveRooms :
          Registered(c) /\ LeaveChatRoom(c, r) /\ UNCHANGED <<pumps, redis, clock, service>>
    \/ \E r \in LiveRooms, u \in Users :
          SendMessageToChat(r, u) /\ UNCHANGED <<pumps, redis, clock, service>>
    \/ \E r \in LiveRooms, u \in Users, t \in BOOLEAN :
          SendTypingIndicator(r, u, t) /\ UNCHANGED <<pumps, redis, clock, service>>
    \/ \E m \in parked : PublishReturns(m) /\ UNCHANGED <<pumps, redis, clock, service>>
    \/ \E c \in Conns : writePump(c) /\ UNCHANGED <<pumps, redis, clock, service>>

Spec == Init /\ [][Next]_vars

\* The hub driven by any sequence of commands on its channels and of calls of
\* JoinChatRoom and LeaveChatRoom, as a test of the package drives it: every
\* command for every connection, in any order, any number of times.
NextCommands ==
    \/ \E c \in Conns : registerClient(c) /\ UNCHANGED <<pumps, redis, clock, service>>
    \/ \E c \in Conns : unregisterClient(c) /\ UNCHANGED <<pumps, redis, clock, service>>
    \/ HubRoutes /\ UNCHANGED <<pumps, redis, clock, service>>
    \/ \E c \in Conns, r \in Rooms : JoinChatRoom(c, r) /\ UNCHANGED <<pumps, redis, clock, service>>
    \/ \E c \in Conns, r \in Rooms : LeaveChatRoom(c, r) /\ UNCHANGED <<pumps, redis, clock, service>>

SpecCommands == Init /\ [][NextCommands]_vars

\* The hub driven by any interleaving of commands, of calls of JoinChatRoom
\* and LeaveChatRoom and of published messages: every command for every
\* connection, registered or not, in any order.  No connection has a
\* writePump: what a Send channel is handed stays in it.
NextInterleaved ==
    \/ \E c \in Conns : registerClient(c) /\ UNCHANGED <<pumps, redis, clock, service>>
    \/ \E c \in Conns : unregisterClient(c) /\ UNCHANGED <<pumps, redis, clock, service>>
    \/ HubRoutes /\ UNCHANGED <<pumps, redis, clock, service>>
    \/ \E c \in Conns, r \in LiveRooms : JoinChatRoom(c, r) /\ UNCHANGED <<pumps, redis, clock, service>>
    \/ \E c \in Conns, r \in LiveRooms : LeaveChatRoom(c, r) /\ UNCHANGED <<pumps, redis, clock, service>>
    \/ \E r \in LiveRooms, u \in Users :
          SendMessageToChat(r, u) /\ UNCHANGED <<pumps, redis, clock, service>>
    \/ \E m \in parked : PublishReturns(m) /\ UNCHANGED <<pumps, redis, clock, service>>

SpecInterleaved == Init /\ [][NextInterleaved]_vars

\* ------------------------------------------------------------ the pumps

\* readPump: c.Conn.ReadJSON returns an error (the peer is gone, the read
\* deadline has passed, or the socket was closed on this side) and the loop
\* breaks; the deferred h.unregister <- c parks the goroutine until Run
\* receives it.
readPumpFails(c) ==
    /\ hubState # "panicked"
    /\ rpump[c] = "reading"
    /\ rpump' = [rpump EXCEPT ![c] = "unregistering"]
    /\ UNCHANGED <<clients, chatRooms, joined, send, closed, wire, broadcast,
                   hubState, hubPending, parked, nextSeq, wpump, redis,
                   clock, service>>

\* Run: case client := <-h.unregister.  The send of readPump completes when
\* Run receives it, whatever becomes of Run inside unregisterClient.
RunUnregister(c) ==
    /\ rpump[c] = "unregistering"
    /\ unregisterClient(c)
    /\ rpump' = [rpump EXCEPT ![c] = "returned"]
    /\ UNCHANGED <<wpump, redis, clock, service>>

\* writePump: WriteJSON, or the ping's WriteMessage, returns an error and
\* the function returns; the deferred c.Conn.Close() closes the socket.
writePumpFails(c) ==
    /\ hubState # "panicked"
    /\ wpump[c] = "writing"
    /\ wpump' = [wpump EXCEPT ![c] = "returned"]
    /\ UNCHANGED <<clients, chatRooms, joined, send, closed, wire, broadcast,
                   hubState, hubPending, parked, nextSeq, rpump, redis,
                   clock, service>>

\* writePump: message, ok := <-c.Send with ok false (the channel is closed
\* and drained): a close frame is written and the function returns.
writePumpClosed(c) ==
    /\ hubState # "panicked"
    /\ wpump[c] = "writing"
    /\ closed[c]
    /\ send[c] = <<>>
    /\ wpump' = [wpump EXCEPT ![c] = "returned"]
    /\ UNCHANGED <<clients, chatRooms, joined, send, closed, wire, broadcast,
                   hubState, hubPending, parked, nextSeq, rpump, redis,
                   clock, service>>

\* The life of the connections, with each pump's end a step of its own.
NextPumps ==
    \/ \E c \in Conns : HandleWebSocket(c)
    \/ \E c \in Conns : readPumpFails(c)
    \/ \E c \in Conns : RunUnregister(c)
    \/ \E c \in Conns : writePumpFails(c)
    \/ \E c \in Conns : writePumpClosed(c)
    \/ HubRoutes /\ UNCHANGED <<pumps, redis, clock, service>>

SpecPumps == Init /\ [][NextPumps]_vars

\* ------------------------------------------------------------ inbound frames

\* What a client writes to its socket: a JSON object with a type, a chat and
\* whatever user_id its author chose.
\* "mystery" stands for every type handleIncomingMessage has no case for.
FrameTypes == {WSTypingStart, WSTypingStop, WSMessageRead, "mystery"}
Frames == [type : FrameTypes, chat : LiveRooms \cup {NilChat}, user : Users]

\* The socket has been closed on this side: by unregisterClient
\* (client.Conn.Close()) or by the defer of writePump.
ConnClosed(c) == closed[c] \/ wpump[c] = "returned"

\* The cases of handleIncomingMessage that call SendTypingIndicator.
CallsTypingAnyType(f) == f.chat # NilChat

CallsTyping(f) == f.type \in {WSTypingStart, WSTypingStop} /\ f.chat # NilChat

\* A handler that believes the frame's user_id.
OriginatorFromFrame(c, f) == f.user

\* The user handleIncomingMessage hands to SendTypingIndicator: c.UserID, the
\* user the connection was authenticated as.
Originator(c, f) == UserOf[c]

\* Time passes for the connections whose readPump runs.  A ReadJSON whose
\* deadline has passed returns before more time passes.
Tick ==
    LET running == {c \in Conns : rpump[c] \in {"reading", "publishing"}} IN
    /\ hubState # "panicked"
    /\ \A c \in Conns : rpump[c] = "reading" => deadline[c] > 0
    /\ \E c \in running : deadline[c] > 0 \/ quiet[c] < IdleWindow
    /\ deadline' = [c \in Conns |->
                      IF c \in running /\ deadline[c] > 0
                      THEN deadline[c] - 1 ELSE deadline[c]]
    /\ quiet' = [c \in Conns |->
                   IF c \in running /\ quiet[c] < IdleWindow
                   THEN quiet[c] + 1 ELSE quiet[c]]
    /\ UNCHANGED <<clients, chatRooms, joined, send, closed, wire, broadcast,
                   hubState, hubPending, parked, nextSeq, pumps, logged, redis,
                   service>>

\* readPump: ReadJSON returns a frame and handleIncomingMessage runs.  The
\* read deadline stays where it was.  A typing frame with a chat calls
\* SendTypingIndicator, which returns at once or parks the pump on the full
\* h.broadcast; message_read does nothing; any other type is logged.
readPumpFrame(c, f) ==
    /\ rpump[c] = "reading"
    /\ ~ConnClosed(c)
    /\ deadline[c] > 0
    /\ quiet' = [quiet EXCEPT ![c] = 0]
    /\ IF CallsTyping(f)
       THEN /\ SendTypingIndicator(f.chat, Originator(c, f), f.type = WSTypingStart)
            /\ rpump' = [rpump EXCEPT ![c] = IF parked' = parked THEN "reading"
                                             ELSE "publishing"]
            /\ logged' = logged
       ELSE /\ hubState # "panicked"
            /\ logged' = (logged \/ f.type \notin {WSTypingStart, WSTypingStop, WSMessageRead})
            /\ UNCHANGED <<clients, chatRooms, joined, send, closed, wire, broadcast,
                           hubState, hubPending, parked, nextSeq, rpump>>
    /\ UNCHANGED <<deadline, wpump, redis, service>>

\* The send of a readPump parked in SendTypingIndicator completes, and the
\* pump is back in ReadJSON.
readPumpPublished(c) ==
    /\ rpump[c] = "publishing"
    /\ \E m \in parked :
          /\ m.type \in {WSTypingStart, WSTypingStop}
          /\ m.user = UserOf[c]
          /\ PublishReturns(m)
    /\ rpump' = [rpump EXCEPT ![c] = "reading"]
    /\ UNCHANGED <<wpump, clock, redis, service>>

\* The pong handler runs inside ReadJSON: the read deadline is set anew.
readPumpPong(c) ==
    /\ hubState # "panicked"
    /\ rpump[c] = "reading"
    /\ ~ConnClosed(c)
    /\ deadline[c] > 0
    /\ deadline' = [deadline EXCEPT ![c] = IdleWindow]
    /\ quiet' = [quiet EXCEPT ![c] = 0]
    /\ UNCHANGED <<clients, chatRooms, joined, send, closed, wire, broadcast,
                   hubState, hubPending, parked, nextSeq, pumps, logged, redis,
                   service>>

\* ReadJSON returns a timeout: the read deadline has passed.  break.
readPumpTimesOut(c) ==
    /\ hubState # "panicked"
    /\ rpump[c] = "reading"
    /\ deadline[c] = 0
    /\ rpump' = [rpump EXCEPT ![c] = "unregistering"]
    /\ UNCHANGED <<clients, chatRooms, joined, send, closed, wire, broadcast,
                   hubState, hubPending, parked, nextSeq, wpump, redis,
                   clock, service>>

\* The connections that are opened in the runs with inbound frames: one
\* device of each user.
Dialled == {"a1", "b1"}

\* The connections with their inbound side: frames, pongs and time.  The
\* clients are honest about their user_id here.
NextFrames ==
    \/ \E c \in Dialled : HandleWebSocket(c)
    \/ \E c \in Conns, f \in Frames : f.user = UserOf[c] /\ readPumpFrame(c, f)
    \/ \E c \in Conns : readPumpPublished(c)
    \/ \E c \in Conns : readPumpPong(c)
    \/ \E c \in Conns : readPumpTimesOut(c)
    \/ \E c \in Conns : readPumpFails(c)
    \/ \E c \in Conns : RunUnregister(c)
    \/ \E c \in Conns : writePumpClosed(c)
    \/ Tick
    \/ HubRoutes /\ UNCHANGED <<pumps, redis, clock, service>>
    \/ \E c \in Conns, r \in LiveRooms :
          Registered(c) /\ JoinChatRoom(c, r) /\ UNCHANGED <<pumps, redis, clock, service>>
    \/ \E c \in Conns : writePump(c) /\ UNCHANGED <<pumps, redis, clock, service>>

SpecFrames == Init /\ [][NextFrames]_vars

\* HandleWebSocket step by step.  It has made the client and is at
\* h.register <- client, an unbuffered channel: it waits there until Run
\* receives.
RegisterHandOff(c) ==
    /\ hubState # "panicked"
    /\ rpump[c] = "none"
    /\ ~closed[c]
    /\ rpump' = [rpump EXCEPT ![c] = "handoff"]
    /\ UNCHANGED <<clients, chatRooms, joined, send, closed, wire, broadcast,
                   hubState, hubPending, parked, nextSeq, wpump, redis,
                   clock, service>>

\* Run: case client := <-h.register: h.registerClient(client).  The send of
\* HandleWebSocket completes when Run receives it.
RunRegister(c) ==
    /\ rpump[c] = "handoff"
    /\ registerClient(c)
    /\ rpump' = [rpump EXCEPT ![c] = "registered"]
    /\ UNCHANGED <<wpump, redis, clock, service>>

\* A HandleWebSocket that starts the pumps before its send was received.
HandedOffOrNot(c) == rpump[c] \in {"handoff", "registered"}

\* HandleWebSocket is past h.register <- client.
HandedOff(c) == rpump[c] = "registered"

\* go client.writePump(); go client.readPump(): the statements after the
\* send.
StartPumps(c) ==
    /\ hubState # "panicked"
    /\ HandedOff(c)
    /\ rpump' = [rpump EXCEPT ![c] = "reading"]
    /\ wpump' = [wpump EXCEPT ![c] = "writing"]
    /\ deadline' = [deadline EXCEPT ![c] = IdleWindow]
    /\ quiet' = [quiet EXCEPT ![c] = 0]
    /\ UNCHANGED <<clients, chatRooms, joined, send, closed, wire, broadcast,
                   hubState, hubPending, parked, nextSeq, logged, redis, service>>

\* The life of the connections with the hand-off of Register, the start of
\* the pumps and each pump's end as steps of their own.
NextHandOff ==
    \/ \E c \in Conns : RegisterHandOff(c)
    \/ \E c \in Conns : RunRegister(c)
    \/ \E c \in Conns : StartPumps(c)
    \/ \E c \in Conns : readPumpFails(c)
    \/ \E c \in Conns : RunUnregister(c)
    \/ \E c \in Conns : writePumpFails(c)
    \/ \E c \in Conns : writePumpClosed(c)
    \/ HubRoutes /\ UNCHANGED <<pumps, redis, clock, service>>

SpecHandOff == Init /\ [][NextHandOff]_vars

\* The inbound side with no deadline in sight: the frames of the dialled
\* connections, in any order, while they join the room and Run routes.
NextTyping ==
    \/ \E c \in Dialled : HandleWebSocket(c)
    \/ \E c \in Conns, f \in Frames : readPumpFrame(c, f)
    \/ \E c \in Conns : readPumpPublished(c)
    \/ \E c \in Conns : readPumpFails(c)
    \/ \E c \in Conns : RunUnregister(c)
    \/ HubRoutes /\ UNCHANGED <<pumps, redis, clock, service>>
    \/ \E c \in Conns, r \in LiveRooms :
          Registered(c) /\ JoinChatRoom(c, r) /\ UNCHANGED <<pumps, redis, clock, service>>
    \/ \E c \in Conns : writePump(c) /\ UNCHANGED <<pumps, redis, clock, service>>

SpecTyping == Init /\ [][NextTyping]_vars

\* The hub with both rooms in use: registered connections join and leave
\* either room while messages and typing indicators for either are published.
NextRooms ==
    \/ \E c \in Conns : HandleWebSocket(c)
    \/ HubRoutes /\ UNCHANGED <<pumps, redis, clock, service>>
    \/ \E c \in Conns, r \in Rooms :
          Registered(c) /\ JoinChatRoom(c, r) /\ UNCHANGED <<pumps, redis, clock, service>>
    \/ \E c \in Conns, r \in Rooms :
          Registered(c) /\ LeaveChatRoom(c, r) /\ UNCHANGED <<pumps, redis, clock, service>>
    \/ \E r \in Rooms, u \in Users :
          SendMessageToChat(r, u) /\ UNCHANGED <<pumps, redis, clock, service>>
    \/ \E r \in Rooms, u \in Users :
          SendTypingIndicator(r, u, TRUE) /\ UNCHANGED <<pumps, redis, clock, service>>
    \/ \E m \in parked : PublishReturns(m) /\ UNCHANGED <<pumps, redis, clock, service>>

SpecRooms == Init /\ [][NextRooms]_vars

\* The scheduler lets every goroutine that can run take its step: Run takes
\* the command or event that is ready, a writePump whose Send is closed and
\* drained sees it, and a ReadJSON on a closed socket returns its error.
FairSpecPumps ==
    /\ SpecPumps
    /\ WF_vars(HubRoutes /\ UNCHANGED <<pumps, redis, clock, service>>)
    /\ \A c \in Conns :
          /\ WF_vars(RunUnregister(c))
          /\ WF_vars(writePumpClosed(c))
          /\ WF_vars(ConnClosed(c) /\ readPumpFails(c))

\* ------------------------------------------------------------ the bridge

\* What travels on the Redis channels: bytes.  A payload that is JSON is held
\* as its object, with the keys of WSMessage's json tags; one that is not
\* JSON has json FALSE.
Payload(t, chat, user) == [json |-> TRUE, type |-> t, chat_id |-> chat, user_id |-> user]
NotJSON == [json |-> FALSE, type |-> "", chat_id |-> "", user_id |-> ""]

\* json.Marshal of a WSMessage, as a peer that relays an event writes it.
Marshal(m) == Payload(m.type, m.chat, m.user)

\* A decoder that reads the user id from the key of the chat id.
UnmarshalMixesKeys(p) == WSMessage(p.type, p.chat_id, p.chat_id, 0)

\* json.Unmarshal([]byte(msg.Payload), &wsMessage): err is nil when the
\* bytes are JSON and chat_id and user_id are UUIDs (any string is a
\* WSMessageType).
Decodes(p) == p.json /\ p.chat_id \in Rooms \cup {NilChat} /\ p.user_id \in Users
Unmarshal(p) == WSMessage(p.type, p.chat_id, p.user_id, 0)

\* The users whose messages are published on a peer, and on this server.
PeerSenders == {"A"}
LocalSenders == {"B"}

\* The payloads peers publish: relayed messages and read receipts, bytes
\* that are not JSON, and JSON whose chat_id is not a UUID.
BridgePayloads ==
    {Marshal(WSMessage(WSMessageReceived, r, u, 0)) : r \in LiveRooms, u \in PeerSenders}
    \cup {Marshal(WSMessage(WSMessageRead, r, u, 0)) : r \in LiveRooms, u \in LocalSenders}
    \cup {NotJSON, Payload(WSMessageReceived, "not-a-uuid", "A")}

Listening == [state |-> "listening", holds |-> None]

\* case msg := <-pubsub.Channel()
RedisReceive(p) ==
    /\ hubState # "panicked"
    /\ bridge = Listening
    /\ nextSeq + Cardinality(parked) <= MaxEvents
    /\ bridge' = [state |-> "received", holds |-> p]
    /\ UNCHANGED <<clients, chatRooms, joined, send, closed, wire, broadcast,
                   hubState, hubPending, parked, nextSeq, pumps, published,
                   clock, service>>

\* if err := json.Unmarshal(...); err == nil { h.broadcast <- wsMessage }
\* The send is the one of every publisher: buffered at once when the channel
\* has room, otherwise the listener is parked on it.
RedisSubscriber ==
    /\ hubState # "panicked"
    /\ bridge.state = "received"
    /\ nextSeq + Cardinality(parked) <= MaxEvents
    /\ IF Decodes(bridge.holds)
       THEN IF Len(broadcast) < BroadcastCap
            THEN /\ broadcast' = Append(broadcast,
                                        [Unmarshal(bridge.holds) EXCEPT !.seq = nextSeq])
                 /\ nextSeq' = nextSeq + 1
                 /\ bridge' = Listening
            ELSE /\ bridge' = [state |-> "sending", holds |-> Unmarshal(bridge.holds)]
                 /\ UNCHANGED <<broadcast, nextSeq>>
       ELSE /\ bridge' = Listening
            /\ UNCHANGED <<broadcast, nextSeq>>
    /\ UNCHANGED <<clients, chatRooms, joined, send, closed, wire,
                   hubState, hubPending, parked, pumps, published,
                   clock, service>>

\* The parked listener's send completes.
RedisSendCompletes ==
    /\ hubState # "panicked"
    /\ bridge.state = "sending"
    /\ Len(broadcast) < BroadcastCap
    /\ broadcast' = Append(broadcast, [bridge.holds EXCEPT !.seq = nextSeq])
    /\ nextSeq' = nextSeq + 1
    /\ bridge' = Listening
    /\ UNCHANGED <<clients, chatRooms, joined, send, closed, wire,
                   hubState, hubPending, parked, pumps, published,
                   clock, service>>

\* case <-ctx.Done(): return.  main passes context.Background(), which is
\* never done; a caller with a context it cancels ends the listener here.
RedisSubscriberReturns ==
    /\ hubState # "panicked"
    /\ bridge = Listening
    /\ bridge' = [state |-> "returned", holds |-> None]
    /\ UNCHANGED <<clients, chatRooms, joined, send, closed, wire, broadcast,
                   hubState, hubPending, parked, nextSeq, pumps, published,
                   clock, service>>

\* ChatService.broadcastReaction: s.wsHub.broadcast <- wsMessage
broadcastReaction(chatID, userID) == Publish(WSMessageReaction, chatID, userID)

\* The server next to its peers: the listener injects what they publish, and
\* the server's own callers publish messages and reactions.
NextBridge ==
    \/ \E c \in Conns : HandleWebSocket(c)
    \/ \E c \in Conns : readPumpExit(c)
    \/ HubRoutes /\ UNCHANGED <<pumps, redis, clock, service>>
    \/ \E c \in Conns, r \in LiveRooms :
          Registered(c) /\ JoinChatRoom(c, r) /\ UNCHANGED <<pumps, redis, clock, service>>
    \/ \E r \in LiveRooms, u \in LocalSenders :
          SendMessageToChat(r, u) /\ UNCHANGED <<pumps, redis, clock, service>>
    \/ \E r \in LiveRooms, u \in Users :
          broadcastReaction(r, u) /\ UNCHANGED <<pumps, redis, clock, service>>
    \/ \E m \in parked : PublishReturns(m) /\ UNCHANGED <<pumps, redis, clock, service>>
    \/ \E c \in Conns : writePump(c) /\ UNCHANGED <<pumps, redis, clock, service>>
    \/ \E p \in BridgePayloads : RedisReceive(p)
    \/ RedisSubscriber
    \/ RedisSendCompletes
    \/ RedisSubscriberReturns

SpecBridge == Init /\ [][NextBridge]_vars

\* ------------------------------------------------------------ ChatService

\* What a call of ChatService can run into.  A call is an HTTP handler's: it
\* runs in a goroutine of its own, next to the hub.  The service is the one
\* NewChatService builds with a hub (s.wsHub != nil).
SendOutcomes == {"denied", "writeFails", "ok"}
AddOutcomes == {"denied", "missing", "writeFails", "summaryFails", "ok"}
RemoveOutcomes == {"denied", "writeFails", "notFound", "summaryFails", "ok"}
ForwardOutcomes == {"missing", "denied", "tooDeep", "writeFails", "ok"}

\* A row the database has taken, and a goroutine a call has started.
Write(op, chatID, userID) == [op |-> op, chat |-> chatID, user |-> userID]
Goroutine(t, chatID, userID) == [type |-> t, chat |-> chatID, user |-> userID]

\* The INSERT or DELETE of the call has succeeded.
Written(o) == o \in {"summaryFails", "ok"}

SpawnsWhatever(o) == TRUE

\* go s.broadcastReaction(...), go s.broadcastForwardedMessage(...): the last
\* statement before the return, behind every early return of the call.
Spawns(o) == o = "ok"

\* The call returns: what it wrote is in the database, what it started runs.
Returns(ws, gs) ==
    /\ hubState # "panicked"
    /\ service.calls < MaxCalls
    /\ gs \cap service.goroutines = {}
    /\ service' = [writes |-> service.writes \cup ws,
                   goroutines |-> service.goroutines \cup gs,
                   calls |-> service.calls + 1]
    /\ UNCHANGED <<clients, chatRooms, joined, send, closed, wire, broadcast,
                   hubState, hubPending, parked, nextSeq, pumps, redis, clock>>

\* ChatService.SendMessage: canUserSendMessage, INSERT, updateChatTimestamp,
\* return.  Nothing in it touches the hub.
SendMessage(senderID, chatID, o) ==
    Returns(IF o = "ok" THEN {Write("sent", chatID, senderID)} ELSE {}, {})

\* ChatService.AddReaction
AddReaction(userID, chatID, o) ==
    Returns(IF Written(o) THEN {Write("added", chatID, userID)} ELSE {},
            IF Spawns(o) THEN {Goroutine(WSMessageReaction, chatID, userID)} ELSE {})

\* ChatService.RemoveReaction
RemoveReaction(userID, chatID, o) ==
    Returns(IF Written(o) THEN {Write("removed", chatID, userID)} ELSE {},
            IF Spawns(o) THEN {Goroutine(WSMessageReaction, chatID, userID)} ELSE {})

\* ChatService.forwardSingleMessage
forwardSingleMessage(userID, targetChatID, o) ==
    Returns(IF o = "ok" THEN {Write("forwarded", targetChatID, userID)} ELSE {},
            IF Spawns(o) THEN {Goroutine(WSMessageReceived, targetChatID, userID)} ELSE {})

\* The goroutine of broadcastReaction or broadcastForwardedMessage runs to its
\* end: it sends on h.broadcast, or (broadcastReaction only) gives up when
\* getUserInfo fails.
GoBroadcast(g, userFound) ==
    /\ g \in service.goroutines
    /\ userFound \/ g.type = WSMessageReaction
    /\ IF userFound
       THEN Publish(g.type, g.chat, g.user)
       ELSE /\ hubState # "panicked"
            /\ UNCHANGED <<clients, chatRooms, joined, send, closed, wire, broadcast,
                           hubState, hubPending, parked, nextSeq>>
    /\ service' = [service EXCEPT !.goroutines = @ \ {g}]
    /\ UNCHANGED <<pumps, redis, clock>>

\* The server with its service: connections come and go and join rooms, and
\* HTTP handlers call the service.
NextService ==
    \/ \E c \in Conns : HandleWebSocket(c)
    \/ \E c \in Conns : readPumpExit(c)
    \/ HubRoutes /\ UNCHANGED <<pumps, redis, clock, service>>
    \/ \E c \in Conns, r \in LiveRooms :
          Registered(c) /\ JoinChatRoom(c, r) /\ UNCHANGED <<pumps, redis, clock, service>>
    \/ \E m \in parked : PublishReturns(m) /\ UNCHANGED <<pumps, redis, clock, service>>
    \/ \E c \in Conns : writePump(c) /\ UNCHANGED <<pumps, redis, clock, service>>
    \/ \E u \in LocalSenders, r \in LiveRooms, o \in SendOutcomes : SendMessage(u, r, o)
    \/ \E u \in LocalSenders, r \in LiveRooms, o \in AddOutcomes : AddReaction(u, r, o)
    \/ \E u \in LocalSenders, r \in LiveRooms, o \in RemoveOutcomes : RemoveReaction(u, r, o)
    \/ \E u \in LocalSenders, r \in LiveRooms, o \in ForwardOutcomes :
          forwardSingleMessage(u, r, o)
    \/ \E g \in service.goroutines, userFound \in BOOLEAN : GoBroadcast(g, userFound)

SpecService == Init /\ [][NextService]_vars

\* ------------------------------------------------------------ C1

\* Every connection a room holds is registered, under the same user.
RegistryInv(cl, rooms) ==
    \A r \in DOMAIN rooms : \A u \in DOMAIN rooms[r] : \A c \in rooms[r][u] :
        u \in DOMAIN cl /\ c \in cl[u]

JoinOrLeaveOfUnregistered ==
    \E c \in Conns, r \in Rooms :
        ~Registered(c) /\ (JoinChatRoom(c, r) \/ LeaveChatRoom(c, r))

\* C1: over every sequence of Register, Unregister, JoinChatRoom and
\* LeaveChatRoom, every operation other than a join or leave of a connection
\* that is not registered keeps the registry invariant: once it has finished
\* (the hub is not parked inside it), every connection id in h.chatRooms is
\* in h.clients under the same user.  The invariant holds initially, so it
\* holds after each operation of every sequence that joins and leaves
\* registered connections only.
C1_RegistryInvariant ==
    [][(/\ RegistryInv(clients, chatRooms)
        /\ ~JoinOrLeaveOfUnregistered
        /\ hubState' # "blockedOnBroadcast")
       => RegistryInv(clients', chatRooms')]_vars

\* A connection that joined both rooms beside another connection of its user
\* has been unregistered: the rooms hold the other connection only.
C1_Witness ==
    /\ closed["a1"] /\ ~Registered("a1") /\ joined["a1"] = Rooms
    /\ Registered("a2")
    /\ \A r \in Rooms : RoomMembers(chatRooms, r) = {"a2"}

\* ------------------------------------------------------------ C8

\* C8: Unregister of a connection that has been unregistered already is a
\* no-op: the registry and the broadcast channel are as before and the hub
\* goes on (close(client.Send) is not run on the closed channel).
C8_UnregisterIdempotent ==
    [][\A c \in Conns :
         (closed[c] /\ ~Registered(c) /\ unregisterClient(c))
         => /\ UNCHANGED registry
            /\ broadcast' = broadcast
            /\ hubState' = "idle"]_vars

\* ------------------------------------------------------------ C2

\* Whether event m is, or has been, in the buffer of connection c.
Got(c, m) ==
    \/ \E i \in DOMAIN send[c] : send[c][i] = m
    \/ \E i \in DOMAIN wire[c] : wire[c][i] = m

\* C2: when the router finds the Send channel of a target full, that
\* connection ends up unregistered (out of h.clients and of the room, Send
\* closed) and every other target of the event has the event.  The hub parked
\* on h.unregister stays parked, so how it is parked is how things end up.
C2_FullTargetIsDropped ==
    hubState = "blockedOnUnregister" =>
        LET v == hubPending.conn
            m == hubPending.message IN
        /\ ~Registered(v)
        /\ closed[v]
        /\ v \notin RoomMembers(chatRooms, m.chat)
        /\ \A c \in Targets(m) \ {v} : Got(c, m)

\* ------------------------------------------------------------ C3

\* The connections of room m.chat that belong to another user than m.user.
OthersInRoom(m) == {c \in RoomMembers(chatRooms, m.chat) : UserOf[c] # m.user}

Typing(m) == m.type \in {WSTypingStart, WSTypingStop}

Handed(c) == wire[c] \o send[c]

EmitsOffline(u) ==
    LET m == WSMessage(WSUserOffline, NilChat, u, 0) IN
    \/ broadcast' = Append(broadcast, m)
    \/ hubState = "idle" /\ hubState' = "blockedOnBroadcast" /\ hubPending' = m

\* C6: user_offline for U is sent only by the Unregister of U's last
\* registered connection, which also prunes U's entry of h.clients.  The
\* Unregister of one of several registered connections of U sends none, keeps
\* the entry and leaves IsUserOnline(U) true.
C6_OfflineOnlyWhenLast ==
    [][\A u \in Users :
         /\ EmitsOffline(u)
              => /\ \E c \in Conns : /\ UserOf[c] = u
                                     /\ unregisterClient(c)
                                     /\ MapGet(clients, u) = {c}
                 /\ u \notin DOMAIN clients'
         /\ \A c \in Conns :
              (UserOf[c] = u /\ Registered(c) /\ unregisterClient(c))
              => IF clients[u] = {c}
                 THEN u \notin DOMAIN clients' /\ EmitsOffline(u)
                 ELSE /\ ~EmitsOffline(u)
                      /\ u \in DOMAIN clients'
                      /\ IsUserOnline(u)']_vars

\* Both connections of A were registered and both have been unregistered:
\* one user_offline for A, from the second Unregister, is all the broadcast
\* channel holds.
C6_Witness ==
    /\ closed["a1"] /\ closed["a2"]
    /\ ~IsUserOnline("A")
    /\ broadcast = <<WSMessage(WSUserOffline, NilChat, "A", 0)>>

\* ------------------------------------------------------------ C7

\* The contact lookup the hub is to consult (an external collaborator): here
\* every other user is a contact.
Contacts(u) == Users \ {u}

\* C7: when the hub routes the user_online event of a Register, every
\* registered connection of a contact of that user whose Send channel is open
\* and has room gets the event.
C7_PresenceReachesContacts ==
    [][\A m \in {broadcast[i] : i \in DOMAIN broadcast} :
         (m.type = WSUserOnline /\ broadcastMessage(m))
         => \A b \in Conns :
              (UserOf[b] \in Contacts(m.user) /\ Registered(b) /\ ~Stops(b))
              => send'[b] = Append(send[b], m)]_vars

\* ------------------------------------------------------------ C9

\* C9: the hub's command loop never blocks for good: it is never parked on a
\* send to h.broadcast or to h.unregister, the channels only it receives
\* from.
C9_HubNeverBlocks ==
    hubState \notin {"blockedOnBroadcast", "blockedOnUnregister"}

\* ------------------------------------------------------------ C10

\* C10: a call of SendMessageToChat or SendTypingIndicator always returns: no
\* caller is parked on h.broadcast while the hub, parked itself, never
\* receives from it again.
C10_PublishAlwaysReturns ==
    ~(/\ parked # {}
      /\ hubState \in {"blockedOnBroadcast", "blockedOnUnregister"})

\* ------------------------------------------------------------ C11

\* One of the two pumps of c has ended.
Terminated(c) == rpump[c] \in {"unregistering", "returned"} \/ wpump[c] = "returned"

\* C11: once readPump or writePump of a connection has ended, the hub
\* processes Unregister for that connection exactly once: it never processes
\* it for a connection it has unregistered already, and as long as it has not
\* closed the connection's Send it is in its select, able to receive the
\* command (a hub that is parked stays parked).
C11_PumpEndUnregistersOnce ==
    [][ /\ \A c \in Conns : unregisterClient(c) => ~closed[c]
        /\ \A c \in Conns : (Terminated(c)' /\ ~closed'[c]) => hubState' = "idle"
      ]_vars

\* ------------------------------------------------------------ C12

\* What a peer writes on the channel for an event it relays.
RelayedPayloads ==
    {Marshal(WSMessage(t, r, u, 0)) :
        t \in {WSMessageReceived, WSTypingStart, WSTypingStop, WSUserOnline,
               WSUserOffline, WSMessageRead, WSMessageReaction},
        r \in Rooms \cup {NilChat}, u \in Users}

\* The listener handles the payload it holds.
Injects == bridge.state = "received" /\ bridge' # bridge

C13_RoutedEventsArePublished ==
    [][ (broadcast # <<>> /\ broadcastMessage(Head(broadcast)))
        => Marshal(Head(broadcast)) \in published' ]_vars

\* ------------------------------------------------------------ C14

Routes(t) ==
    /\ broadcast # <<>>
    /\ Head(broadcast).type = t
    /\ broadcastMessage(Head(broadcast))

\* C15: when the router processes a message_reaction event of room R, every
\* connection joined to R whose Send is open and has room is handed it.
C15_ReactionReachesRoom ==
    [][ Routes(WSMessageReaction)
        => \A c \in RoomMembers(chatRooms, Head(broadcast).chat) :
              ~Stops(c) => send'[c] = Append(send[c], Head(broadcast)) ]_vars

\* ------------------------------------------------------------ C16

\* The sender of the message a read receipt refers to (a lookup in the
\* message store): the receipt is the reader's, the message is the other
\* user's.
MessageSender(m) == CHOOSE u \in Users : u # m.user

\* C16: when the router processes a message_read event, the registered
\* connections of the sender of the referenced message whose Send is open and
\* has room are handed it, and no other connection is.
C16_ReadReceiptReachesSender ==
    [][ Routes(WSMessageRead)
        => \A c \in Conns :
              IF c \in MapGet(clients, MessageSender(Head(broadcast))) /\ ~Stops(c)
              THEN send'[c] = Append(send[c], Head(broadcast))
              ELSE send'[c] = send[c] ]_vars

\* ------------------------------------------------------------ C17

\* The hub has finished a LeaveChatRoom or an unregisterClient.
LeftOrUnregistered ==
    \/ \E c \in Conns, r \in Rooms : LeaveChatRoom(c, r)
    \/ \E c \in Conns : unregisterClient(c) /\ hubState' # "blockedOnBroadcast"

\* C17: after every LeaveChatRoom and every unregisterClient, h.chatRooms
\* holds no room with an empty user map and no user with an empty connection
\* map.
C17_RoomsArePruned ==
    [][ LeftOrUnregistered
        => \A r \in DOMAIN chatRooms' :
              /\ DOMAIN chatRooms'[r] # {}
              /\ \A u \in DOMAIN chatRooms'[r] : chatRooms'[r][u] # {} ]_vars

\* ------------------------------------------------------------ C18

\* C18: JoinChatRoom(c, r) leaves c under r and c's user in h.chatRooms and
\* r in c.ChatRooms, and every room with the members it had (r with c, too);
\* called for a connection that is under r already, it changes neither
\* h.clients, nor h.chatRooms, nor any connection's ChatRooms.
C18_JoinIdempotent ==
    [][ \A c \in Conns, r \in Rooms :
          JoinChatRoom(c, r)
          => /\ r \in DOMAIN chatRooms'
             /\ UserOf[c] \in DOMAIN chatRooms'[r]
             /\ c \in chatRooms'[r][UserOf[c]]
             /\ r \in joined'[c]
             /\ \A q \in Rooms :
                   RoomMembers(chatRooms', q) =
                      RoomMembers(chatRooms, q) \cup (IF q = r THEN {c} ELSE {})
             /\ c \in RoomMembers(chatRooms, r) => UNCHANGED registry ]_vars

\* Two connections of one user are joined to the same room.
C18_Witness ==
    \E c \in Conns : \E d \in Conns \ {c} : \E r \in Rooms :
        /\ UserOf[c] = UserOf[d]
        /\ {c, d} \subseteq RoomMembers(chatRooms, r)
        /\ r \in joined[c] \cap joined[d]

\* ------------------------------------------------------------ C19

\* C19: LeaveChatRoom(c, r) for a connection that is not under r in
\* h.chatRooms changes neither h.clients, nor h.chatRooms, nor any
\* connection's ChatRooms.
C19_LeaveOfNotJoined ==
    [][ \A c \in Conns, r \in Rooms :
          (LeaveChatRoom(c, r) /\ c \notin RoomMembers(chatRooms, r))
          => UNCHANGED registry ]_vars

\* ------------------------------------------------------------ C20

\* C20: for a registered connection c that is not joined to r, JoinChatRoom
\* (c, r) followed by LeaveChatRoom(c, r) gives back h.chatRooms and
\* c.ChatRooms as they were (neither call writes h.clients).
C20_LeaveInvertsJoin ==
    \A c \in Conns, r \in Rooms :
        (Registered(c) /\ c \notin RoomMembers(chatRooms, r) /\ r \notin joined[c])
        => /\ RemoveFromRoom(AddToRoom(chatRooms, r, c), r, c) = chatRooms
           /\ (joined[c] \cup {r}) \ {r} = joined[c]

\* ------------------------------------------------------------ C21

\* C21: registerClient(c) does not crash the hub and leaves c in h.clients
\* under its user, and every other connection as it was; for a connection
\* that is registered already h.clients does not change, and after every
\* register GetConnectionCount is the number of registered connections, each
\* counted once.
C21_RegisterIdempotent ==
    [][ \A c \in Conns :
          registerClient(c)
          => /\ hubState' # "panicked"
             /\ Registered(c)'
             /\ \A d \in Conns \ {c} : Registered(d)' = Registered(d)
             /\ Registered(c) => clients' = clients
             /\ GetConnectionCount' = Cardinality({d \in Conns : Registered(d)'}) ]_vars

\* b1, the one connection of its user, has been registered twice in a row.
C21_Witness ==
    /\ Registered("b1")
    /\ GetConnectionCount = 1
    /\ Len(broadcast) = 2
    /\ \A i \in DOMAIN broadcast :
          broadcast[i].type = WSUserOnline /\ broadcast[i].user = UserOf["b1"]

\* ------------------------------------------------------------ C23

\* C23: JoinChatRoom for a connection that is not registered (it has been
\* unregistered, or never was registered) does not put it under the room.
C23_NoJoinWhenUnregistered ==
    [][ \A c \in Conns, r \in Rooms :
          (JoinChatRoom(c, r) /\ ~Registered(c))
          => c \notin RoomMembers(chatRooms', r) ]_vars

\* ------------------------------------------------------------ C22

\* C22: when the hub has processed Unregister for a registered connection,
\* the connection is in h.clients no more, in no room, and its Send is
\* closed; and a Send that is closed stays closed and is handed nothing more.
C22_UnregisteredGetsNothing ==
    [][ /\ \A c \in Conns :
             (unregisterClient(c) /\ Registered(c) /\ hubState' = "idle")
             => /\ ~Registered(c)'
                /\ \A r \in Rooms : c \notin RoomMembers(chatRooms', r)
                /\ closed'[c]
        /\ \A c \in Conns :
             closed[c]
             => /\ closed'[c]
                /\ \/ send'[c] = send[c]
                   \/ send[c] # <<>> /\ send'[c] = Tail(send[c]) ]_vars

\* a1 was handed the first message, has been unregistered without having
\* left the room, and the second message went to a2 and not to a1.
C22_Witness ==
    /\ closed["a1"] /\ ~Registered("a1") /\ "G1" \in joined["a1"]
    /\ Len(send["a1"]) = 1 /\ Head(send["a1"]).seq = 1
    /\ Len(send["a2"]) = 1 /\ Head(send["a2"]).seq = 2

\* ------------------------------------------------------------ C30

\* C30: every connection the router sends an event to is registered and its
\* Send is open.
C30_RouterSendsToOpenOnly ==
    [][ \A i \in DOMAIN broadcast :
          broadcastMessage(broadcast[i])
          => \A c \in Targets(broadcast[i]) : Registered(c) /\ ~closed[c] ]_vars

\* ------------------------------------------------------------ C24

\* The events for chat r and user u of type t that are on their way to the
\* router: in a goroutine about to send, parked on the channel, or buffered.
OnTheWay(t, r, u) ==
    \/ Goroutine(t, r, u) \in service.goroutines
    \/ \E m \in parked : m.type = t /\ m.chat = r /\ m.user = u
    \/ \E i \in DOMAIN broadcast :
          broadcast[i].type = t /\ broadcast[i].chat = r /\ broadcast[i].user = u

\* C24: when SendMessage has persisted a message of sender u for chat r, a
\* message-delivered event for r with u as its user is on its way to the hub.
C24_SendMessagePublishes ==
    [][ \A u \in Users, r \in Rooms :
           SendMessage(u, r, "ok") => OnTheWay(WSMessageReceived, r, u)' ]_vars

\* ------------------------------------------------------------ C25

\* The write an event of type t stands for.
WriteOps(t) ==
    IF t = WSMessageReaction THEN {"added", "removed"} ELSE {"forwarded"}

WriteBehind(t, r, u) == \E op \in WriteOps(t) : Write(op, r, u) \in service.writes

\* Every reaction and forward event on its way has its row in the database.
PublishedAfterWrite ==
    \A t \in {WSMessageReaction, WSMessageReceived}, r \in Rooms, u \in Users :
        OnTheWay(t, r, u) => WriteBehind(t, r, u)

\* The calls that have written nothing, or whose summary query failed.
FailedCall ==
    \E u \in Users, r \in Rooms :
        \/ \E o \in AddOutcomes \ {"ok"} : AddReaction(u, r, o)
        \/ \E o \in RemoveOutcomes \ {"ok"} : RemoveReaction(u, r, o)
        \/ \E o \in ForwardOutcomes \ {"ok"} : forwardSingleMessage(u, r, o)

SucceededCall ==
    \E u \in Users, r \in Rooms :
        \/ AddReaction(u, r, "ok")
        \/ RemoveReaction(u, r, "ok")
        \/ forwardSingleMessage(u, r, "ok")

\* C25: a reaction or forward event is on its way to the hub only when its
\* row has been written; a call that was denied, found no message or failed
\* to write starts no goroutine and hands the hub nothing; a call that
\* succeeded returns with the hub's channel as it was.
C25_PublishAfterWrite ==
    [][ /\ PublishedAfterWrite'
        /\ FailedCall => /\ service'.goroutines = service.goroutines
                         /\ broadcast' = broadcast /\ parked' = parked
        /\ SucceededCall => /\ service'.calls = service.calls + 1
                            /\ broadcast' = broadcast /\ parked' = parked ]_vars

\* Both calls have returned while the hub is parked for ever and the event of
\* one of them waits on the full channel.
C25_Witness ==
    /\ service.calls = MaxCalls
    /\ hubState = "blockedOnBroadcast"
    /\ Len(broadcast) = BroadcastCap
    /\ \E m \in parked : m.type = WSMessageReaction /\ WriteBehind(m.type, m.chat, m.user)
    /\ Goroutine(WSMessageReceived, "G1", "B") \in service.goroutines

\* ------------------------------------------------------------ C26

\* The goroutine of Run is parked on a send to one of the hub's channels.
ParkedSending ==
    /\ hubPending # None
    /\ hubState \in {"blockedOnBroadcast", "blockedOnUnregister"}

\* C26: the registry lock is held for a map operation only: while a goroutine
\* is parked on a send to h.broadcast or h.unregister, h.mutex is held in
\* neither mode.
C26_LockFreeWhileSending == ParkedSending => mutex = "free"

\* ------------------------------------------------------------ C27

\* C27: the inbound idle timeout is rolling: a frame of any kind gives the
\* connection a full window again, and the read times out only when no frame
\* of any kind has arrived for a full window.
C27_RollingIdleTimeout ==
    [][ \A c \in Conns :
          /\ (\E f \in Frames : readPumpFrame(c, f)) => deadline'[c] = IdleWindow
          /\ readPumpPong(c) => deadline'[c] = IdleWindow
          /\ readPumpTimesOut(c) => quiet[c] >= IdleWindow ]_vars

\* ------------------------------------------------------------ C28

\* The frames handleIncomingMessage has no case for.
Unrecognized == {f \in Frames : f.type \notin {WSTypingStart, WSTypingStop, WSMessageRead}}

\* C28: a frame of a type the handler does not know is ignored: the readPump
\* that read it is back in ReadJSON, the registry, the rooms and every Send
\* channel are as they were, and nothing has been published; and a readPump
\* leaves its loop only when its read fails (an error, a frame that does not
\* decode, the deadline).
C28_UnknownFrameIgnored ==
    [][ \A c \in Conns :
          /\ \A f \in Unrecognized :
                readPumpFrame(c, f)
                => /\ rpump'[c] = "reading"
                   /\ UNCHANGED <<registry, send, closed, broadcast, parked, nextSeq,
                                  hubState>>
                   /\ logged'
          /\ (rpump[c] \in {"reading", "publishing"}
              /\ rpump'[c] \in {"unregistering", "returned"})
             => readPumpFails(c) \/ readPumpTimesOut(c) ]_vars

\* a1, in room G1, has sent a frame of an unknown type a tick ago and a tick
\* before its deadline: it is still read from, registered and in the room.
C28_Witness ==
    /\ logged
    /\ rpump["a1"] = "reading" /\ rpump["b1"] = "none"
    /\ quiet["a1"] = 0 /\ deadline["a1"] = 1
    /\ Registered("a1")
    /\ "a1" \in RoomMembers(chatRooms, "G1")
    /\ parked = {} /\ nextSeq = 1

\* ------------------------------------------------------------ C29

\* C29: once the Send channel of a connection is closed its writePump
\* returns, once its socket is closed its readPump returns, and a connection
\* that is no longer registered does not keep a pump for ever.
C29_PumpsTerminate ==
    \A c \in Conns :
        /\ closed[c] ~> (wpump[c] = "returned")
        /\ ConnClosed(c) ~> (rpump[c] = "returned")
        /\ (rpump[c] # "none" /\ ~Registered(c))
              ~> (Registered(c) \/ (rpump[c] = "returned" /\ wpump[c] = "returned"))

\* ------------------------------------------------------------ C31

\* C31: an event for room R is enqueued only into connections that are in
\* h.chatRooms[R] when Run routes it, whichever rooms they are in besides or
\* were in before; and routing an event for a room that holds no connection
\* changes neither the registry nor any connection, and leaves Run idle.
C31_RoomIsolation ==
    [][ \A m \in {broadcast[i] : i \in DOMAIN broadcast} :
          broadcastMessage(m)
          => /\ \A c \in Conns :
                   send'[c] # send[c] => c \in RoomMembers(chatRooms, m.chat)
             /\ RoomMembers(chatRooms, m.chat) = {}
                   => /\ UNCHANGED <<registry, send, closed, wire, parked>>
                      /\ hubState' = "idle" ]_vars

\* B's message for G2 has reached a1, which is in G2, and not a2, which is
\* in G1 only; a second event has been routed and has reached nobody.
C31_Witness ==
    /\ RoomMembers(chatRooms, "G2") = {"a1"}
    /\ RoomMembers(chatRooms, "G1") = {"a2"}
    /\ "G1" \in DOMAIN chatRooms /\ Registered("b1")
    /\ Len(send["a1"]) = 1 /\ Head(send["a1"]).chat = "G2" /\ Head(send["a1"]).user = "B"
    /\ send["a2"] = <<>> /\ send["b1"] = <<>>
    /\ broadcast = <<>> /\ nextSeq = 3 /\ hubState = "idle"

\* ------------------------------------------------------------ C32

\* The events that this step has handed to h.broadcast, buffered or parked.
HandedToHub ==
    (parked' \ parked) \cup
    (IF Len(broadcast') = Len(broadcast) + 1
     THEN {[broadcast'[Len(broadcast')] EXCEPT !.seq = 0]} ELSE {})

\* C32: the typing event made from a frame read on connection c has c's user
\* as its user, the frame's chat and the frame's type, whatever user_id the
\* frame carries; a frame of any other type, or with the nil chat, hands the
\* hub nothing.
C32_TypingOriginator ==
    [][ \A c \in Conns, f \in Frames :
          readPumpFrame(c, f)
          => IF f.type \in {WSTypingStart, WSTypingStop} /\ f.chat # NilChat
             THEN HandedToHub = {WSMessage(f.type, f.chat, UserOf[c], 0)}
             ELSE HandedToHub = {} /\ broadcast' = broadcast ]_vars

\* Only a1 has connected, and a typing indicator for G1 is on h.broadcast
\* behind a1's online status: it names A.
C32_Witness ==
    /\ rpump["a1"] = "reading" /\ rpump["b1"] = "none"
    /\ Len(broadcast) = 2
    /\ broadcast[1].type = WSUserOnline
    /\ broadcast[2] = WSMessage(WSTypingStart, "G1", "A", 1)

\* ------------------------------------------------------------ C33

\* Every room that holds a connection is in the connection's ChatRooms.
JoinedSetCovers(rooms, j) ==
    \A c \in Conns, r \in Rooms : c \in RoomMembers(rooms, r) => r \in j[c]

\* C33: whenever h.chatRooms[R] holds connection c, R is in c.ChatRooms; and
\* therefore an unregisterClient(c) that gets past its status send, walking
\* c.ChatRooms only, leaves c in no room.
C33_JoinedSetConsistent ==
    [][ /\ JoinedSetCovers(chatRooms, joined)'
        /\ \A c \in Conns :
              (unregisterClient(c) /\ hubState' # "blockedOnBroadcast")
              => \A r \in Rooms : c \notin RoomMembers(chatRooms', r) ]_vars

\* a1, with G1 in its ChatRooms, has been unregistered: no room holds it,
\* and a2, which joined both rooms, is still in both.
C33_Witness ==
    /\ joined["a1"] = {"G1"} /\ closed["a1"] /\ ~Registered("a1")
    /\ joined["a2"] = {"G1", "G2"}
    /\ RoomMembers(chatRooms, "G1") = {"a2"}
    /\ RoomMembers(chatRooms, "G2") = {"a2"}
    /\ hubState = "idle"

\* ------------------------------------------------------------ C34

\* The connections that are registered and not unregistered.
Live == {c \in Conns : Registered(c)}

\* What the queries answer, against the live connections.
QueriesAgree ==
    /\ \A u \in Users : IsUserOnline(u) <=> (\E c \in Live : UserOf[c] = u)
    /\ GetConnectionCount = Cardinality(Live)

\* C34: a connection is live from the registerClient that Run executes for
\* it to the next unregisterClient for it, and no other step makes it live
\* or ends that; in every state IsUserOnline(U) is true exactly when a
\* connection of U is live, and GetConnectionCount is the number of live
\* connections.
C34_QueryConsistency ==
    [][ /\ \A c \in Conns :
              /\ registerClient(c) => c \in Live'
              /\ unregisterClient(c) => c \notin Live'
              /\ (c \in Live') # (c \in Live) => registerClient(c) \/ unregisterClient(c)
        /\ QueriesAgree' ]_vars

\* Both devices of A were registered and a1 has been unregistered; B's only
\* device was registered and unregistered: A is online with one connection,
\* B is offline.
C34_Witness ==
    /\ closed["a1"] /\ closed["b1"] /\ ~closed["a2"]
    /\ Live = {"a2"}
    /\ IsUserOnline("A") /\ ~IsUserOnline("B")
    /\ GetConnectionCount = 1
    /\ hubState = "idle"

\* ------------------------------------------------------------ C35

\* C35: Run executes registerClient for a connection before it executes
\* unregisterClient for it: when it takes the connection's Unregister the
\* connection is registered with its Send open, when it takes its Register
\* its Send is open, and no connection is ever in h.clients with its Send
\* closed.
C35_RegisterBeforeUnregister ==
    [][ \A c \in Conns :
          /\ RunUnregister(c) => Registered(c) /\ ~closed[c]
          /\ RunRegister(c) => ~closed[c] /\ wpump[c] = "none"
          /\ ~(Registered(c) /\ closed[c])' ]_vars

\* a1 has lived its life and is unregistered; a2 is registered and its pumps
\* are not started yet; b1's HandleWebSocket is held at h.register.
C35_Witness ==
    /\ rpump["a1"] = "returned" /\ closed["a1"] /\ ~Registered("a1")
    /\ rpump["a2"] = "registered" /\ wpump["a2"] = "none" /\ Registered("a2")
    /\ rpump["b1"] = "handoff" /\ ~Registered("b1")
====
